---------------------------- MODULE Spec2Model ----------------------------
(***************************************************************************)
(* Verification model of src-tauri/src/lib.rs: the LRC lyric decoder       *)
(* (parse_lrc_lyrics), the metadata cache (load_metadata_cache,            *)
(* save_metadata_cache, get_metadata_for_song) and the audio streaming     *)
(* responder (AudioProtocolHandler::handle_request and the accept loop of  *)
(* run) and the tag extraction (parse_audio_metadata).                     *)
(*                                                                         *)
(* A Rust String is a sequence of characters, each character a TLA+ string *)
(* ("LF" is U+000A, "CR" is U+000D, "U0663" is ARABIC-INDIC DIGIT THREE).  *)
(* An Option is a sequence of length 0 (None) or 1 (Some).  A time in      *)
(* seconds is held as its whole number of milliseconds: the code computes  *)
(* mins * 60.0 + secs + millis / 1000.0 from integers below 100, 100 and   *)
(* 1000, so two times compare as their millisecond counts do.              *)
(***************************************************************************)
EXTENDS Integers, Sequences, FiniteSets, TLC

VARIABLES
    lrc,          \* parse_lrc_lyrics: the argument
    lrcPc,        \* parse_lrc_lyrics: "call" before the call, "done" after
    lrcResult,    \* parse_lrc_lyrics: the returned (plain_text, synced)
    file,         \* metadata_cache.json: whether it exists, and its content
    svPc,         \* save_metadata_cache: "idle", or "writing" inside fs::write
    svCache,      \* save_metadata_cache: the cache argument of the last call
    svJson,       \* save_metadata_cache: the serialized document being written
    svResult,     \* save_metadata_cache: the result of the last call
    ldPc,         \* the loading command: "idle", "check", "read", "done"
    ldOp,         \* the loading command: "load" or "get" (get_metadata_for_song)
    ldId,         \* get_metadata_for_song: the song_id argument
    ldResult,     \* the loading command: what it returned
    ldSeen,       \* what the loading call met: the state at its start, the
                  \* saves begun while it ran, the content it read
    numWorkers,   \* the worker threads of the async runtime
    srvPc,        \* the server task of run: "bind", "accept" or "stopped"
    lastAccept,   \* the accept loop: the outcome of the last listener.accept()
    conns,        \* the connections: where each is, its request, its response
    audio,        \* parse_audio_metadata: the file at file_path, as lofty reads it
    metaPc,       \* parse_audio_metadata: "call", "tags", "fallbacks", "done"
    metaLocals,   \* parse_audio_metadata: title, artist, album, lyrics,
                  \* cover_data and cover_mime after the tag block (line 575)
    metaResult    \* parse_audio_metadata: the returned ParsedMetadataResult

lrcVars == <<lrc, lrcPc, lrcResult>>
cacheVars == <<file, svPc, svCache, svJson, svResult, ldPc, ldOp, ldId, ldResult, ldSeen>>
srvVars == <<numWorkers, srvPc, lastAccept, conns>>
metaVars == <<audio, metaPc, metaLocals, metaResult>>
vars == <<lrcVars, cacheVars, srvVars, metaVars>>

Ok(v) == [ok |-> TRUE, val |-> v]
Err(e) == [ok |-> FALSE, val |-> e]

None == <<>>
Some(x) == <<x>>

(***************************************************************************)
(* Strings                                                                 *)
(***************************************************************************)
LF == "LF"
CR == "CR"

\* char::is_whitespace, for the characters of the model
IsSpace(c) == c \in {" ", LF, CR}

\* the class \d of the regex crate: Unicode decimal digits
AsciiDigits == {"0", "1", "2", "3", "4", "5", "6", "7", "8", "9"}
IsDigit(c) == c \in AsciiDigits \cup {"U0663"}

DigitVal(c) ==
    CASE c = "0" -> 0 [] c = "1" -> 1 [] c = "2" -> 2 [] c = "3" -> 3
      [] c = "4" -> 4 [] c = "5" -> 5 [] c = "6" -> 6 [] c = "7" -> 7
      [] c = "8" -> 8 [] c = "9" -> 9

RECURSIVE Concat(_)
Concat(ss) == IF ss = <<>> THEN <<>> ELSE Head(ss) \o Concat(Tail(ss))

Slice(s, a, b) == IF a > b THEN <<>> ELSE SubSeq(s, a, b)

RECURSIVE TrimStart(_)
TrimStart(s) ==
    IF s # <<>> /\ IsSpace(Head(s)) THEN TrimStart(Tail(s)) ELSE s

RECURSIVE TrimEnd(_)
TrimEnd(s) ==
    IF s # <<>> /\ IsSpace(s[Len(s)]) THEN TrimEnd(Slice(s, 1, Len(s) - 1)) ELSE s

\* str::trim
Trim(s) == TrimEnd(TrimStart(s))

\* one item of str::lines: the segment without its "\n" and, only when the "\n"
\* ended it, without a "\r" before that
StripLineEnd(seg, terminated) ==
    IF terminated /\ seg # <<>> /\ seg[Len(seg)] = CR
    THEN Slice(seg, 1, Len(seg) - 1)
    ELSE seg

RECURSIVE LinesFrom(_, _, _, _)
LinesFrom(s, i, cur, acc) ==
    IF i > Len(s)
    THEN IF cur = <<>> THEN acc ELSE Append(acc, StripLineEnd(cur, FALSE))
    ELSE IF s[i] = LF
         THEN LinesFrom(s, i + 1, <<>>, Append(acc, StripLineEnd(cur, TRUE)))
         ELSE LinesFrom(s, i + 1, Append(cur, s[i]), acc)

\* str::lines
Lines(s) == LinesFrom(s, 1, <<>>, <<>>)

RECURSIVE JoinFrom(_, _, _)
JoinFrom(ls, i, sep) ==
    IF i > Len(ls) THEN <<>>
    ELSE IF i = Len(ls) THEN ls[i]
    ELSE ls[i] \o sep \o JoinFrom(ls, i + 1, sep)

\* [String]::join
Join(ls, sep) == JoinFrom(ls, 1, sep)

\* u64::from_str on a capture of the regex: Some(value), or None for a digit
\* that is not an ASCII digit
RECURSIVE ParseDigits(_, _)
ParseDigits(s, acc) ==
    IF s = <<>> THEN Some(acc)
    ELSE IF Head(s) \in AsciiDigits
         THEN ParseDigits(Tail(s), acc * 10 + DigitVal(Head(s)))
         ELSE None

ParseU64(s) == IF s = <<>> THEN None ELSE ParseDigits(s, 0)

UnwrapOr(opt, d) == IF opt = None THEN d ELSE opt[1]

(***************************************************************************)
(* The timestamp regex \[(\d{2}):(\d{2})(?:\.(\d{2,3}))?\]                 *)
(***************************************************************************)
At(s, i) == IF i >= 1 /\ i <= Len(s) THEN s[i] ELSE "EOF"

\* the number of fractional digits of the match starting at i with a ".", or 0
\* when the optional group does not match there: \d{2,3} is greedy
FracLen(s, i) ==
    IF At(s, i + 6) = "." /\ IsDigit(At(s, i + 7)) /\ IsDigit(At(s, i + 8))
    THEN IF IsDigit(At(s, i + 9)) /\ At(s, i + 10) = "]" THEN 3
         ELSE IF At(s, i + 9) = "]" THEN 2
         ELSE 0
    ELSE 0

\* the match of the regex starting exactly at i: None, or the captures and
\* the position after the match
MatchAt(s, i) ==
    IF /\ At(s, i) = "["
       /\ IsDigit(At(s, i + 1)) /\ IsDigit(At(s, i + 2))
       /\ At(s, i + 3) = ":"
       /\ IsDigit(At(s, i + 4)) /\ IsDigit(At(s, i + 5))
    THEN IF FracLen(s, i) > 0
         THEN Some([start |-> i, next |-> i + 8 + FracLen(s, i),
                    g1 |-> Slice(s, i + 1, i + 2), g2 |-> Slice(s, i + 4, i + 5),
                    g3 |-> Some(Slice(s, i + 7, i + 6 + FracLen(s, i)))])
         ELSE IF At(s, i + 6) = "]"
              THEN Some([start |-> i, next |-> i + 7,
                         g1 |-> Slice(s, i + 1, i + 2), g2 |-> Slice(s, i + 4, i + 5),
                         g3 |-> None])
              ELSE None
    ELSE None

\* Regex::captures_iter: the leftmost non-overlapping matches, in order
RECURSIVE CapturesFrom(_, _, _)
CapturesFrom(s, i, acc) ==
    IF i > Len(s) THEN acc
    ELSE IF MatchAt(s, i) = None
         THEN CapturesFrom(s, i + 1, acc)
         ELSE CapturesFrom(s, MatchAt(s, i)[1].next, Append(acc, MatchAt(s, i)[1]))

CapturesIter(s) == CapturesFrom(s, 1, <<>>)

\* Regex::replace_all(s, ""): the text between the matches
RECURSIVE RemoveFrom(_, _, _)
RemoveFrom(s, caps, pos) ==
    IF caps = <<>> THEN Slice(s, pos, Len(s))
    ELSE Slice(s, pos, Head(caps).start - 1) \o RemoveFrom(s, Tail(caps), Head(caps).next)

ReplaceAllEmpty(s) == RemoveFrom(s, CapturesIter(s), 1)

(***************************************************************************)
(* parse_lrc_lyrics                                                        *)
(***************************************************************************)
\* the closure of lines 650-659: "Pad or truncate to 3 digits"
PadMillis(m) == IF m < 10 THEN m * 100 ELSE IF m < 100 THEN m * 10 ELSE m

\* lines 646-662 for one match, in milliseconds
TimeOf(cap) ==
    LET mins == UnwrapOr(ParseU64(cap.g1), 0)
        secs == UnwrapOr(ParseU64(cap.g2), 0)
        millis == IF cap.g3 = None \/ ParseU64(cap.g3[1]) = None
                  THEN 0
                  ELSE PadMillis(ParseU64(cap.g3[1])[1])
    IN  mins * 60000 + secs * 1000 + millis

\* lines 643-665: the timestamps of a trimmed line
Timestamps(trimmed) ==
    [k \in 1..Len(CapturesIter(trimmed)) |-> TimeOf(CapturesIter(trimmed)[k])]

\* line 668
TextWithoutTimestamps(trimmed) == Trim(ReplaceAllEmpty(trimmed))

\* a variant that emits an entry for the first timestamp of the line only
LineEntries_FirstOnly(trimmed) ==
    IF Timestamps(trimmed) = <<>> THEN <<>>
    ELSE <<[time |-> Timestamps(trimmed)[1], text |-> TextWithoutTimestamps(trimmed)]>>

\* lines 672-677: one LyricLine per timestamp
LineEntries(trimmed) ==
    [k \in 1..Len(Timestamps(trimmed)) |->
        [time |-> Timestamps(trimmed)[k], text |-> TextWithoutTimestamps(trimmed)]]

\* lines 636-683: the state (synced_lyrics, plain_text_lines) after the lines
RECURSIVE LoopLines(_, _, _, _)
LoopLines(ls, i, synced, plain) ==
    IF i > Len(ls) THEN [synced |-> synced, plain |-> plain]
    ELSE LET trimmed == Trim(ls[i])
             text == TextWithoutTimestamps(trimmed)
         IN  IF trimmed = <<>> THEN LoopLines(ls, i + 1, synced, plain)
             ELSE IF Timestamps(trimmed) # <<>> /\ text # <<>>
                  THEN LoopLines(ls, i + 1, synced \o LineEntries(trimmed),
                                 Append(plain, text))
                  ELSE IF text # <<>>
                       THEN LoopLines(ls, i + 1, synced, Append(plain, text))
                       ELSE LoopLines(ls, i + 1, synced, plain)

\* the comparator of line 686: a.time.partial_cmp(&b.time) is Less
TimeLess(a, b) == a.time < b.time

\* slice::sort_by is a stable sort: an element goes after every element that
\* is not greater than it
RECURSIVE InsertSorted(_, _)
InsertSorted(sorted, x) ==
    IF sorted = <<>> THEN <<x>>
    ELSE IF TimeLess(x, Head(sorted)) THEN <<x>> \o sorted
    ELSE <<Head(sorted)>> \o InsertSorted(Tail(sorted), x)

RECURSIVE SortFrom(_, _, _)
SortFrom(v, i, acc) ==
    IF i > Len(v) THEN acc ELSE SortFrom(v, i + 1, InsertSorted(acc, v[i]))

\* a variant without the sort of line 686
SortByTime_Unsorted(v) == v

SortByTime(v) == SortFrom(v, 1, <<>>)

\* the entries pushed by the loop, before the sort
EmittedSynced(s) == LoopLines(Lines(s), 1, <<>>, <<>>).synced

\* the lines pushed to plain_text_lines
PlainTextLines(s) == LoopLines(Lines(s), 1, <<>>, <<>>).plain

\* a variant that joins the plain lines with a space
parse_lrc_lyrics_JoinSpace(s) ==
    [plain_text |-> Join(PlainTextLines(s), <<" ">>),
     synced |-> IF EmittedSynced(s) = <<>> THEN None
                ELSE Some(SortByTime(EmittedSynced(s)))]

\* lines 685-695
parse_lrc_lyrics(s) ==
    [plain_text |-> Join(PlainTextLines(s), <<LF>>),
     synced |-> IF EmittedSynced(s) = <<>> THEN None
                ELSE Some(SortByTime(EmittedSynced(s)))]


(***************************************************************************)
(* The arguments parse_lrc_lyrics is called with                           *)
(***************************************************************************)
MaxChunks == 3     \* chunks in a free-form argument
MaxLines == 3      \* lines in a line-structured argument
MaxFracLen == 3    \* fractional digits in a generated marker

M_12_34 == <<"[", "0", "0", ":", "1", "2", ".", "3", "4", "]">>
M_01_02 == <<"[", "0", "1", ":", "0", "2", "]">>
M_00_5 == <<"[", "0", "0", ":", "0", "0", ".", "5", "]">>
Hello == <<"H", "e", "l", "l", "o">>
Hi == <<"H", "i">>

RECURSIVE SeqsUpTo(_, _)
SeqsUpTo(S, n) ==
    IF n = 0 THEN {<<>>}
    ELSE SeqsUpTo(S, n - 1) \cup {Append(q, x) : q \in SeqsUpTo(S, n - 1), x \in S}

Chunks == {M_12_34, M_01_02, M_00_5, Hello, <<"X">>, <<" ">>, <<LF>>, <<CR>>}

FreeFormInputs == {Concat(q) : q \in SeqsUpTo(Chunks, MaxChunks)}

LinePool ==
    {M_01_02 \o Hi, M_12_34 \o <<"X">>, M_01_02 \o <<" ">> \o M_12_34 \o Hello,
     <<" ">> \o Hi \o <<" ">>, <<>>, M_01_02}

LineInputs ==
    {Join(q, <<LF>>) \o e : q \in SeqsUpTo(LinePool, MaxLines), e \in {<<>>, <<LF>>}}

FracDigits == {"0", "5", "U0663"}

MarkerInputs ==
    {<<"[">> \o mm \o <<":">> \o ss \o (IF f = <<>> THEN <<>> ELSE <<".">> \o f)
        \o <<"]", "X">> :
        mm \in {<<"0", "0">>, <<"0", "1">>},
        ss \in {<<"0", "0">>, <<"1", "2">>},
        f \in SeqsUpTo(FracDigits, MaxFracLen)}

LrcInputs == FreeFormInputs \cup LineInputs \cup MarkerInputs

(***************************************************************************)
(* The decoder as a state machine: one call of parse_lrc_lyrics            *)
(***************************************************************************)
LrcStart ==
    /\ lrc \in LrcInputs
    /\ lrcPc = "call"
    /\ lrcResult = [plain_text |-> <<>>, synced |-> None]

ParseLrc ==
    /\ lrcPc = "call"
    /\ lrcResult' = parse_lrc_lyrics(lrc)
    /\ lrcPc' = "done"
    /\ UNCHANGED <<lrc, cacheVars, srvVars, metaVars>>

LrcIdle ==
    /\ lrc = <<>>
    /\ lrcPc = "idle"
    /\ lrcResult = [plain_text |-> <<>>, synced |-> None]



(***************************************************************************)
(* Claims about parse_lrc_lyrics                                           *)
(***************************************************************************)
Count(v, e) == Cardinality({i \in DOMAIN v : v[i] = e})

WithTime(v, t) == LET Test(e) == e.time = t IN SelectSeq(v, Test)

\* C7: the returned synced timeline is absent, or non-empty and sorted
\* non-decreasingly by time with entries of equal time in the order in which
\* the lines emitted them.
C7_SyncedSortedStable ==
    lrcPc = "done" =>
        \/ lrcResult.synced = None
        \/ LET v == lrcResult.synced[1]
               emitted == EmittedSynced(lrc)
           IN  /\ v # <<>>
               /\ \A i \in 1..(Len(v) - 1) : v[i].time <= v[i + 1].time
               /\ \A t \in {v[i].time : i \in DOMAIN v} :
                      WithTime(v, t) = WithTime(emitted, t)

\* a call whose emitted entries are out of order and hold two entries of one
\* time with different texts
C7_Witness ==
    /\ lrcPc = "done"
    /\ lrcResult.synced # None
    /\ LET emitted == EmittedSynced(lrc)
       IN  \E i, j \in DOMAIN emitted : i < j /\ emitted[i].time > emitted[j].time
    /\ \E i, j \in DOMAIN lrcResult.synced[1] :
           /\ lrcResult.synced[1][i].time = lrcResult.synced[1][j].time
           /\ lrcResult.synced[1][i].text # lrcResult.synced[1][j].text

\* C8: '[00:12.34]Hello' decodes to one entry at 12.34 s, '[01:02]Hi' to one
\* entry at 62.0 s and '[00:00.5]X' to one entry 'X' at 0.5 s.
C8_Examples ==
    lrcPc = "done" =>
        /\ lrc = M_12_34 \o Hello =>
               lrcResult.synced = Some(<<[time |-> 12340, text |-> Hello]>>)
        /\ lrc = M_01_02 \o Hi =>
               lrcResult.synced = Some(<<[time |-> 62000, text |-> Hi]>>)
        /\ lrc = M_00_5 \o <<"X">> =>
               lrcResult.synced = Some(<<[time |-> 500, text |-> <<"X">>]>>)

\* what a line of the argument is to contribute: its markers, and its text
\* with the markers removed and the outer whitespace trimmed
LineMarkers(line) == CapturesIter(line)
LineText(line) == Trim(ReplaceAllEmpty(line))

RECURSIVE ExpectedSynced(_, _)
ExpectedSynced(ls, i) ==
    IF i > Len(ls) THEN <<>>
    ELSE (IF LineMarkers(ls[i]) # <<>> /\ LineText(ls[i]) # <<>>
          THEN [k \in 1..Len(LineMarkers(ls[i])) |->
                   [time |-> TimeOf(LineMarkers(ls[i])[k]), text |-> LineText(ls[i])]]
          ELSE <<>>) \o ExpectedSynced(ls, i + 1)

RECURSIVE ExpectedPlain(_, _)
ExpectedPlain(ls, i) ==
    IF i > Len(ls) THEN <<>>
    ELSE (IF LineText(ls[i]) # <<>> THEN <<LineText(ls[i])>> ELSE <<>>)
             \o ExpectedPlain(ls, i + 1)

SyncedOrEmpty(r) == IF r.synced = None THEN <<>> ELSE r.synced[1]

\* C9: a line with k >= 1 markers and non-empty text gives exactly k synced
\* entries, one per marker at its time, each with the stripped text, and the
\* text once in the plain text; a line with text and no marker gives the text
\* in the plain text only; a line with markers and no text gives nothing.
C9_EntriesPerMarker ==
    lrcPc = "done" =>
        LET want == ExpectedSynced(Lines(lrc), 1)
            got == SyncedOrEmpty(lrcResult)
        IN  /\ Len(got) = Len(want)
            /\ \A i \in DOMAIN want : Count(got, want[i]) = Count(want, want[i])
            /\ lrcResult.plain_text = Join(ExpectedPlain(Lines(lrc), 1), <<LF>>)

\* a call with a line of two markers and text, a line of text only and a line
\* of a marker only
C9_Witness ==
    /\ lrcPc = "done"
    /\ \E i, j, k \in DOMAIN Lines(lrc) :
           /\ Len(LineMarkers(Lines(lrc)[i])) >= 2 /\ LineText(Lines(lrc)[i]) # <<>>
           /\ LineMarkers(Lines(lrc)[j]) = <<>> /\ LineText(Lines(lrc)[j]) # <<>>
           /\ LineMarkers(Lines(lrc)[k]) # <<>> /\ LineText(Lines(lrc)[k]) = <<>>
    /\ Len(SyncedOrEmpty(lrcResult)) = 2

\* C10 as stated: an argument without a marker comes back unchanged as the
\* plain text, with no synced timeline.
C10_PlainUnchanged ==
    (lrcPc = "done" /\ CapturesIter(lrc) = <<>>) =>
        /\ lrcResult.plain_text = lrc
        /\ lrcResult.synced = None

\* no line of s is blank or has outer whitespace, and s ends with no newline
NoOuterWhitespace(s) ==
    \A i \in DOMAIN s :
        (i = 1 \/ i = Len(s) \/ s[i - 1] = LF \/ s[i + 1] = LF) => ~IsSpace(s[i])

\* C10 amended: an argument without a marker gives no synced timeline and, as
\* the plain text, its non-blank lines, each trimmed, joined by newlines; the
\* plain text is the argument itself when no line is blank or has outer
\* whitespace and the argument does not end with a newline.
C10_PlainTrimmedLines ==
    (lrcPc = "done" /\ CapturesIter(lrc) = <<>>) =>
        /\ lrcResult.synced = None
        /\ lrcResult.plain_text = Join(ExpectedPlain(Lines(lrc), 1), <<LF>>)
        /\ NoOuterWhitespace(lrc) => lrcResult.plain_text = lrc

\* a call without a marker whose lines hold a blank one: the plain text keeps
\* two lines and differs from the argument
C10_Witness ==
    /\ lrcPc = "done"
    /\ CapturesIter(lrc) = <<>>
    /\ \E i \in DOMAIN Lines(lrc) : Trim(Lines(lrc)[i]) = <<>>
    /\ Len(ExpectedPlain(Lines(lrc), 1)) = 2
    /\ lrcResult.plain_text # lrc


\* the digits are ASCII digits
AsciiOnly(ds) == \A i \in DOMAIN ds : ds[i] \in AsciiDigits

\* the milliseconds a fraction of two or three digits stands for, by its
\* number of digits
FracMillis(f) ==
    IF Len(f) = 2
    THEN (DigitVal(f[1]) * 10 + DigitVal(f[2])) * 10
    ELSE DigitVal(f[1]) * 100 + DigitVal(f[2]) * 10 + DigitVal(f[3])

\* the time a marker of ASCII digits stands for, in milliseconds
MarkerTime(cap) ==
    (DigitVal(cap.g1[1]) * 10 + DigitVal(cap.g1[2])) * 60000
    + (DigitVal(cap.g2[1]) * 10 + DigitVal(cap.g2[2])) * 1000
    + (IF cap.g3 = None THEN 0 ELSE FracMillis(cap.g3[1]))

\* C13: the entry of a marker has the time minutes * 60 + seconds +
\* milliseconds / 1000, where a fraction of two digits counts its value times
\* 10 as the milliseconds and a fraction of three digits its value, leading
\* zeros included: ".05" is 50 ms and ".005" is 5 ms.
C13_FractionByDigitCount ==
    (/\ lrcPc = "done"
     /\ Len(CapturesIter(lrc)) = 1
     /\ lrcResult.synced # None) =>
        LET cap == CapturesIter(lrc)[1]
        IN  (/\ AsciiOnly(cap.g1) /\ AsciiOnly(cap.g2)
             /\ cap.g3 # None => AsciiOnly(cap.g3[1])) =>
                lrcResult.synced[1][1].time = MarkerTime(cap)

(***************************************************************************)
(* serde_json on MetadataCache                                             *)
(*                                                                         *)
(* The document is the sequence of its JSON tokens: <<"{">>, <<"}">>,      *)
(* <<"[">>, <<"]">>, <<"null">>, <<"key", name>> for an object key with    *)
(* its colon, <<"str", chars>> for a string literal with its escapes and   *)
(* <<"num", chars>> for a number literal.  Commas and the whitespace of    *)
(* to_string_pretty are left out.  An f64 is held in milliseconds, as in   *)
(* the decoder, and written in seconds.                                    *)
(***************************************************************************)
QUOTE == "\""
BSLASH == "\\"

TokKey(k) == <<"key", k>>
TokEOF == <<"EOF">>
TokAt(toks, i) == IF i >= 1 /\ i <= Len(toks) THEN toks[i] ELSE TokEOF

RECURSIVE EscapeJson(_)
EscapeJson(s) ==
    IF s = <<>> THEN <<>>
    ELSE (CASE Head(s) = QUOTE -> <<BSLASH, QUOTE>>
            [] Head(s) = BSLASH -> <<BSLASH, BSLASH>>
            [] Head(s) = LF -> <<BSLASH, "n">>
            [] Head(s) = CR -> <<BSLASH, "r">>
            [] OTHER -> <<Head(s)>>) \o EscapeJson(Tail(s))

\* the string of a literal: None for a raw control character or a bad escape
RECURSIVE UnescapeFrom(_, _, _)
UnescapeFrom(s, i, acc) ==
    IF i > Len(s) THEN Some(acc)
    ELSE IF s[i] = BSLASH
         THEN CASE At(s, i + 1) = QUOTE -> UnescapeFrom(s, i + 2, Append(acc, QUOTE))
                [] At(s, i + 1) = BSLASH -> UnescapeFrom(s, i + 2, Append(acc, BSLASH))
                [] At(s, i + 1) = "n" -> UnescapeFrom(s, i + 2, Append(acc, LF))
                [] At(s, i + 1) = "r" -> UnescapeFrom(s, i + 2, Append(acc, CR))
                [] OTHER -> None
         ELSE IF s[i] \in {QUOTE, LF, CR} THEN None
         ELSE UnescapeFrom(s, i + 1, Append(acc, s[i]))

UnescapeJson(s) == UnescapeFrom(s, 1, <<>>)

DigitChar(d) ==
    CASE d = 0 -> "0" [] d = 1 -> "1" [] d = 2 -> "2" [] d = 3 -> "3" [] d = 4 -> "4"
      [] d = 5 -> "5" [] d = 6 -> "6" [] d = 7 -> "7" [] d = 8 -> "8" [] d = 9 -> "9"

\* the decimal digits of an unsigned integer
RECURSIVE FormatU64(_)
FormatU64(n) ==
    IF n < 10 THEN <<DigitChar(n)>> ELSE Append(FormatU64(n \div 10), DigitChar(n % 10))

RECURSIVE StripZeros(_)
StripZeros(ds) ==
    IF Len(ds) > 1 /\ ds[Len(ds)] = "0" THEN StripZeros(Slice(ds, 1, Len(ds) - 1)) ELSE ds

\* a finite f64 is written with a fraction: 1.0, 12.34, 0.5
FormatF64(ms) ==
    FormatU64(ms \div 1000) \o <<".">> \o
        StripZeros(<<DigitChar((ms % 1000) \div 100), DigitChar((ms % 100) \div 10),
                     DigitChar(ms % 10)>>)

IndexOfDot(s) == IF \E i \in DOMAIN s : s[i] = "."
                 THEN CHOOSE i \in DOMAIN s : s[i] = "." /\ \A j \in 1..(i - 1) : s[j] # "."
                 ELSE 0

\* a number literal as f64, in milliseconds: None when it is no number of at
\* most three fractional digits
ParseF64(s) ==
    LET dot == IndexOfDot(s)
        whole == IF dot = 0 THEN s ELSE Slice(s, 1, dot - 1)
        frac == IF dot = 0 THEN <<"0">> ELSE Slice(s, dot + 1, Len(s))
        padded == frac \o Slice(<<"0", "0">>, 1, 3 - Len(frac))
    IN  IF ParseU64(whole) = None \/ ParseU64(frac) = None \/ Len(frac) > 3
        THEN None
        ELSE Some(ParseU64(whole)[1] * 1000 + ParseU64(padded)[1])

SerLyricLine(l) ==
    <<<<"{">>, TokKey("time"), <<"num", FormatF64(l.time)>>,
      TokKey("text"), <<"str", EscapeJson(l.text)>>, <<"}">>>>

SerLyricLines(v) ==
    <<<<"[">>>> \o Concat([i \in DOMAIN v |-> SerLyricLine(v[i])]) \o <<<<"]">>>>

\* #[derive(Serialize)] of CachedMetadata, lines 112-131: the fields in order,
\* a None of the three optional fields skipped
SerCachedMetadata(e) ==
    <<<<"{">>,
      TokKey("title"), <<"str", EscapeJson(e.title)>>,
      TokKey("artist"), <<"str", EscapeJson(e.artist)>>,
      TokKey("album"), <<"str", EscapeJson(e.album)>>,
      TokKey("duration"), <<"num", FormatF64(e.duration)>>,
      TokKey("lyrics"), <<"str", EscapeJson(e.lyrics)>>>>
    \o (IF e.synced_lyrics = None THEN <<>>
        ELSE <<TokKey("syncedLyrics")>> \o SerLyricLines(e.synced_lyrics[1]))
    \o (IF e.cover_data = None THEN <<>>
        ELSE <<TokKey("coverData"), <<"str", EscapeJson(e.cover_data[1])>>>>)
    \o (IF e.cover_mime = None THEN <<>>
        ELSE <<TokKey("coverMime"), <<"str", EscapeJson(e.cover_mime[1])>>>>)
    \o <<TokKey("fileName"), <<"str", EscapeJson(e.file_name)>>,
         TokKey("fileSize"), <<"num", FormatU64(e.file_size)>>,
         TokKey("lastModified"), <<"num", FormatU64(e.last_modified)>>,
         <<"}">>>>

\* a variant that serializes cache.entries instead of cache
SerMetadataCache_EntriesOnly(entries, order) ==
    <<<<"{">>>>
    \o Concat([i \in DOMAIN order |->
                  <<TokKey(order[i])>> \o SerCachedMetadata(entries[order[i]])])
    \o <<<<"}">>>>

\* serde_json::to_string_pretty(&cache), line 449; order is the order in which
\* the HashMap iterates over its keys
SerMetadataCache(entries, order) ==
    <<<<"{">>, TokKey("entries"), <<"{">>>>
    \o Concat([i \in DOMAIN order |->
                  <<TokKey(order[i])>> \o SerCachedMetadata(entries[order[i]])])
    \o <<<<"}">>, <<"}">>>>

Fail == [ok |-> FALSE, val |-> <<>>, pos |-> 0]
Parsed(v, p) == [ok |-> TRUE, val |-> v, pos |-> p]

LyricLineSchema == [time |-> "f64", text |-> "str"]
LyricLineRequired == {"time", "text"}

CachedMetadataSchema ==
    [title |-> "str", artist |-> "str", album |-> "str", duration |-> "f64",
     lyrics |-> "str", syncedLyrics |-> "opt_lyrics", coverData |-> "opt_str",
     coverMime |-> "opt_str", fileName |-> "str", fileSize |-> "u64",
     lastModified |-> "u64"]
CachedMetadataRequired ==
    {"title", "artist", "album", "duration", "lyrics", "fileName", "fileSize",
     "lastModified"}

MetadataCacheSchema == [entries |-> "entries"]
MetadataCacheRequired == {"entries"}

RECURSIVE ParseValue(_, _, _)
RECURSIVE ParseFields(_, _, _, _)
RECURSIVE ParseLyricArray(_, _, _)
RECURSIVE ParseEntriesMap(_, _, _)

\* the fields of an object up to its "}": a field given twice is an error, a
\* field that is not of the struct is skipped
ParseFields(toks, pos, schema, acc) ==
    LET tok == TokAt(toks, pos)
    IN  IF tok = <<"}">> THEN Parsed(acc, pos + 1)
        ELSE IF tok[1] # "key" THEN Fail
        ELSE IF tok[2] \in DOMAIN acc THEN Fail
        ELSE IF tok[2] \notin DOMAIN schema
             THEN IF TokAt(toks, pos + 1)[1] \in {"str", "num", "null"}
                  THEN ParseFields(toks, pos + 2, schema, acc)
                  ELSE Fail
        ELSE LET v == ParseValue(toks, pos + 1, schema[tok[2]])
             IN  IF v.ok
                 THEN ParseFields(toks, v.pos, schema, (tok[2] :> v.val) @@ acc)
                 ELSE Fail

\* a struct of the given schema at pos
ParseStruct(toks, pos, schema, required) ==
    IF TokAt(toks, pos) # <<"{">> THEN Fail
    ELSE LET r == ParseFields(toks, pos + 1, schema, <<>>)
         IN  IF r.ok /\ required \subseteq DOMAIN r.val THEN r ELSE Fail

\* the elements of Vec<LyricLine> up to the "]"
ParseLyricArray(toks, pos, acc) ==
    IF TokAt(toks, pos) = <<"]">> THEN Parsed(acc, pos + 1)
    ELSE LET r == ParseStruct(toks, pos, LyricLineSchema, LyricLineRequired)
         IN  IF r.ok
             THEN ParseLyricArray(toks, r.pos,
                      Append(acc, [time |-> r.val["time"], text |-> r.val["text"]]))
             ELSE Fail

ParseValue(toks, pos, kind) ==
    LET tok == TokAt(toks, pos)
    IN  CASE kind \in {"opt_str", "opt_lyrics"} /\ tok = <<"null">> -> Parsed(None, pos + 1)
          [] kind = "opt_str" /\ tok # <<"null">> ->
                 LET r == ParseValue(toks, pos, "str")
                 IN  IF r.ok THEN Parsed(Some(r.val), r.pos) ELSE Fail
          [] kind = "opt_lyrics" /\ tok # <<"null">> ->
                 IF tok = <<"[">>
                 THEN LET r == ParseLyricArray(toks, pos + 1, <<>>)
                      IN  IF r.ok THEN Parsed(Some(r.val), r.pos) ELSE Fail
                 ELSE Fail
          [] kind = "entries" ->
                 IF tok = <<"{">> THEN ParseEntriesMap(toks, pos + 1, <<>>) ELSE Fail
          [] kind = "str" ->
                 IF tok[1] = "str" /\ UnescapeJson(tok[2]) # None
                 THEN Parsed(UnescapeJson(tok[2])[1], pos + 1)
                 ELSE Fail
          [] kind = "u64" ->
                 IF tok[1] = "num" /\ ParseU64(tok[2]) # None
                 THEN Parsed(ParseU64(tok[2])[1], pos + 1)
                 ELSE Fail
          [] kind = "f64" ->
                 IF tok[1] = "num" /\ ParseF64(tok[2]) # None
                 THEN Parsed(ParseF64(tok[2])[1], pos + 1)
                 ELSE Fail

Field(m, k) == IF k \in DOMAIN m THEN m[k] ELSE None

\* #[derive(Deserialize)] of CachedMetadata: an optional field that is absent
\* is None
ToCachedMetadata(m) ==
    [title |-> m["title"], artist |-> m["artist"], album |-> m["album"],
     duration |-> m["duration"], lyrics |-> m["lyrics"],
     synced_lyrics |-> Field(m, "syncedLyrics"),
     cover_data |-> Field(m, "coverData"), cover_mime |-> Field(m, "coverMime"),
     file_name |-> m["fileName"], file_size |-> m["fileSize"],
     last_modified |-> m["lastModified"]]

\* the HashMap<String, CachedMetadata> up to its "}": a later value of a key
\* replaces the earlier one
ParseEntriesMap(toks, pos, acc) ==
    LET tok == TokAt(toks, pos)
    IN  IF tok = <<"}">> THEN Parsed(acc, pos + 1)
        ELSE IF tok[1] # "key" THEN Fail
        ELSE LET r == ParseStruct(toks, pos + 1, CachedMetadataSchema,
                                  CachedMetadataRequired)
             IN  IF r.ok
                 THEN ParseEntriesMap(toks, r.pos,
                          (tok[2] :> ToCachedMetadata(r.val)) @@
                              [k \in DOMAIN acc \ {tok[2]} |-> acc[k]])
                 ELSE Fail

\* serde_json::from_str::<MetadataCache>(&content), line 430: the entries, or
\* an error; nothing but whitespace may follow the document
FromStrMetadataCache(toks) ==
    LET r == ParseStruct(toks, 1, MetadataCacheSchema, MetadataCacheRequired)
    IN  IF r.ok /\ r.pos = Len(toks) + 1 THEN Ok(r.val["entries"]) ELSE Err("parse")

(***************************************************************************)
(* The metadata cache commands                                             *)
(***************************************************************************)
Ids == {"s1", "s2"}

EntryPlain ==
    [title |-> <<"T">>, artist |-> <<"A">>, album |-> <<"B">>, duration |-> 0,
     lyrics |-> <<>>, synced_lyrics |-> None, cover_data |-> None,
     cover_mime |-> None, file_name |-> <<"f">>, file_size |-> 0,
     last_modified |-> 17]

EntryRich ==
    [title |-> <<QUOTE, "T", BSLASH>>, artist |-> <<"A">>, album |-> <<"B">>,
     duration |-> 62500, lyrics |-> <<"H", "i", LF, "X">>,
     synced_lyrics |-> Some(<<[time |-> 12340, text |-> <<"H", "i">>],
                              [time |-> 62000, text |-> <<"X">>]>>),
     cover_data |-> Some(<<"Q", "Q">>), cover_mime |-> Some(<<"p", "n", "g">>),
     file_name |-> <<"f">>, file_size |-> 120, last_modified |-> 5]

EntryOdd ==
    [title |-> <<>>, artist |-> <<"A">>, album |-> <<"B">>, duration |-> 1005,
     lyrics |-> <<>>, synced_lyrics |-> Some(<<>>), cover_data |-> Some(<<>>),
     cover_mime |-> None, file_name |-> <<"f">>, file_size |-> 9,
     last_modified |-> 0]


\* a value of MetadataCache.entries with the given entries, in the order of Ids
CacheOf(es) == [id \in (IF Len(es) = 1 THEN {"s1"} ELSE Ids) |->
                   IF id = "s1" THEN es[1] ELSE es[2]]

EmptyCache == [id \in {} |-> EntryPlain]

\* the caches the callers save
Caches ==
    {EmptyCache, CacheOf(<<EntryPlain>>), CacheOf(<<EntryRich, EntryOdd>>),
     CacheOf(<<EntryOdd, EntryPlain>>)}

\* the tokens one write of write_all adds at most
WriteBlock == 12

\* the orders in which a HashMap of these keys may iterate
Orders(S) ==
    {q \in SeqsUpTo(S, Cardinality(S)) :
        Len(q) = Cardinality(S) /\ {q[i] : i \in DOMAIN q} = S}

NoFile == [exists |-> FALSE, data |-> <<>>]
NotLoading == [prev |-> None, new |-> {}, quiet |-> FALSE, read |-> "none"]

\* the complete documents: what a save of some cache writes
CompleteDocs ==
    UNION {{SerMetadataCache(c, order) : order \in Orders(DOMAIN c)} : c \in Caches}


CacheIdle ==
    /\ file = NoFile
    /\ svPc = "idle"
    /\ svCache = EmptyCache
    /\ svJson = <<>>
    /\ svResult = Err("none")
    /\ ldPc = "idle"
    /\ ldOp = "load"
    /\ ldId = None
    /\ ldResult = Err("none")
    /\ ldSeen = NotLoading

saverVars == <<svPc, svCache, svJson, svResult>>
notCache == <<lrcVars, srvVars, metaVars>>
loaderVars == <<ldPc, ldOp, ldId, ldResult>>

\* a save begun while a load runs is a writer the load may meet
NoteSave(c) ==
    ldSeen' = IF ldPc \in {"check", "read"}
              THEN [ldSeen EXCEPT !.new = @ \cup {c}, !.quiet = FALSE]
              ELSE ldSeen

\* save_metadata_cache up to the open of fs::write (lines 444-450): the
\* document is serialized and File::create truncates the file
SaveBegin(c, order) ==
    /\ svPc = "idle"
    /\ svPc' = "writing"
    /\ svCache' = c
    /\ svJson' = SerMetadataCache(c, order)
    /\ file' = [exists |-> TRUE, data |-> <<>>]
    /\ NoteSave(c)
    /\ UNCHANGED <<svResult, loaderVars, notCache>>

\* write_all inside fs::write: one write of some of the bytes left
SaveWrite ==
    /\ svPc = "writing"
    /\ \E n \in (Len(file.data) + 1)..Len(svJson) :
           /\ n = Len(svJson) \/ n % WriteBlock = 0
           /\ file' = [exists |-> TRUE, data |-> SubSeq(svJson, 1, n)]
    /\ UNCHANGED <<saverVars, loaderVars, ldSeen, notCache>>

\* fs::write returned Ok: lines 452-456
SaveFinish ==
    /\ svPc = "writing"
    /\ file.data = svJson
    /\ svPc' = "idle"
    /\ svResult' = Ok("saved")
    /\ svJson' = <<>>
    /\ UNCHANGED <<file, svCache, loaderVars, ldSeen, notCache>>

\* a write of fs::write fails, or the process is stopped inside it: what was
\* written stays
SaveFail ==
    /\ svPc = "writing"
    /\ file.data # svJson
    /\ svPc' = "idle"
    /\ svResult' = Err("write")
    /\ svJson' = <<>>
    /\ UNCHANGED <<file, svCache, loaderVars, ldSeen, notCache>>

\* a call of load_metadata_cache, or of get_metadata_for_song, which calls it
LoadBegin(op, id) ==
    /\ ldPc = "idle"
    /\ ldPc' = "check"
    /\ ldOp' = op
    /\ ldId' = id
    /\ ldSeen' = [prev |-> IF ~file.exists THEN Some(EmptyCache)
                           ELSE IF svPc = "idle" /\ svResult.ok THEN Some(svCache)
                           ELSE None,
                  new |-> IF svPc = "writing" THEN {svCache} ELSE {},
                  quiet |-> svPc = "idle" /\ (file.exists => svResult.ok),
                  read |-> "none"]
    /\ UNCHANGED <<file, saverVars, ldResult, notCache>>

\* what the command returns for the result of load_metadata_cache: lines
\* 480-481 for get_metadata_for_song
Returned(op, id, loaded) ==
    IF op = "load" \/ ~loaded.ok THEN loaded
    ELSE Ok(IF id[1] \in DOMAIN loaded.val THEN Some(loaded.val[id[1]]) ELSE None)

\* lines 418-423: cache_path.exists()
LoadCheck ==
    /\ ldPc = "check"
    /\ IF file.exists
       THEN ldPc' = "read" /\ UNCHANGED ldResult
       ELSE ldPc' = "done" /\ ldResult' = Returned(ldOp, ldId, Ok(EmptyCache))
    /\ UNCHANGED <<file, saverVars, ldOp, ldId, ldSeen, notCache>>

\* a variant that takes a document it cannot parse for an empty cache
LoadRead_DefaultOnError ==
    /\ ldPc = "read"
    /\ ldPc' = "done"
    /\ ldResult' = Returned(ldOp, ldId,
                       IF FromStrMetadataCache(file.data).ok
                       THEN FromStrMetadataCache(file.data)
                       ELSE Ok(EmptyCache))
    /\ ldSeen' = [ldSeen EXCEPT !.read = IF file.data \in CompleteDocs THEN "complete"
                                          ELSE "broken"]
    /\ UNCHANGED <<file, saverVars, ldOp, ldId, notCache>>

\* lines 425-436: read_to_string, then from_str
LoadRead ==
    /\ ldPc = "read"
    /\ ldPc' = "done"
    /\ ldResult' = Returned(ldOp, ldId, FromStrMetadataCache(file.data))
    /\ ldSeen' = [ldSeen EXCEPT !.read = IF file.data \in CompleteDocs THEN "complete"
                                          ELSE "broken"]
    /\ UNCHANGED <<file, saverVars, ldOp, ldId, notCache>>

\* the caller has the result
LoadReturn ==
    /\ ldPc = "done"
    /\ ldPc' = "idle"
    /\ ldResult' = Err("none")
    /\ ldOp' = "load"
    /\ ldId' = None
    /\ ldSeen' = NotLoading
    /\ UNCHANGED <<file, saverVars, notCache>>

LoadStep == LoadCheck \/ LoadRead \/ LoadReturn

NextCache ==
    \/ \E c \in Caches : \E order \in Orders(DOMAIN c) : SaveBegin(c, order)
    \/ SaveWrite
    \/ SaveFinish
    \/ SaveFail
    \/ LoadBegin("load", None)
    \/ \E id \in Ids : LoadBegin("get", Some(id))
    \/ LoadCheck
    \/ LoadRead
    \/ LoadReturn

(***************************************************************************)
(* Claims about the metadata cache                                         *)
(***************************************************************************)
\* the documents a load may observe: the one persisted when it began (no
\* document counts as the empty one) and those of the saves that ran beside it
MayObserve ==
    (IF ldSeen.prev = None THEN {} ELSE {ldSeen.prev[1]}) \cup ldSeen.new

\* C1: a load beside a save, also one that fails part-way, observes the
\* complete previous document or the complete new one, never a truncated one.
C1_SaveAtomic ==
    (ldPc = "done" /\ ldOp = "load") =>
        /\ ldResult.ok
        /\ ldResult.val \in MayObserve

\* C4: load returns the empty mapping, not an error, when no document is
\* persisted, and the mapping C right after a successful save of C with no
\* writer in between.
C4_RoundTrip ==
    (ldPc = "done" /\ ldOp = "load" /\ ldSeen.quiet) =>
        /\ ldResult.ok
        /\ ldResult.val = ldSeen.prev[1]

\* a load right after the save of a cache of two entries, with and without
\* the optional fields
C4_Witness ==
    /\ ldPc = "done" /\ ldOp = "load" /\ ldSeen.quiet
    /\ file.exists
    /\ svPc = "idle" /\ svResult.ok
    /\ ldSeen.read = "complete"
    /\ ldResult.ok
    /\ ldResult.val = CacheOf(<<EntryRich, EntryOdd>>)

\* C5: when the persisted document cannot be parsed, load_metadata_cache and
\* get_metadata_for_song return an error, not an empty mapping or an absent
\* entry, and the load leaves the document as it is.
C5_CorruptIsError ==
    /\ []((ldPc = "done" /\ ldSeen.read = "broken") => ~ldResult.ok)
    /\ [][LoadStep => file' = file]_vars

\* get_metadata_for_song has read a document that a failed save left
\* truncated
C5_Witness ==
    /\ ldPc = "done" /\ ldOp = "get" /\ ldSeen.read = "broken"
    /\ svPc = "idle" /\ ~svResult.ok /\ file.data # <<>>

(***************************************************************************)
(* The streaming responder                                                 *)
(*                                                                         *)
(* The file system belongs to the environment: Path::exists and fs::read   *)
(* may give any outcome at the moment they are called, and fs::read may    *)
(* take any time to return.  handle_request holds no await: from its first *)
(* line to its response it runs on one worker thread of the runtime.       *)
(***************************************************************************)
MaxConns == 2      \* connections
MaxWorkers == 2    \* worker threads the runtime may have

ConnIds == 1..MaxConns

AudioFilePrefix == <<"/", "a", "u", "d", "i", "o", "-", "f", "i", "l", "e", "/">>
AudioFile == <<"/", "a", "u", "d", "i", "o", "-", "f", "i", "l", "e">>
PathEq == <<"p", "a", "t", "h", "=">>
A_Mp3 == <<"a", ".", "m", "p", "3">>
B_Flac == <<"b", ".", "f", "l", "a", "c">>
C_M4a == <<"c", ".", "m", "4", "a">>
D_Wav == <<"d", ".", "w", "a", "v">>
E_Ogg == <<"e", ".", "o", "g", "g">>

StartsWith(s, pre) == Len(s) >= Len(pre) /\ Slice(s, 1, Len(pre)) = pre
EndsWith(s, suf) == Len(s) >= Len(suf) /\ Slice(s, Len(s) - Len(suf) + 1, Len(s)) = suf

\* str::strip_prefix
StripPrefix(s, pre) ==
    IF StartsWith(s, pre) THEN Some(Slice(s, Len(pre) + 1, Len(s))) ELSE None

\* str::split(sep)
RECURSIVE SplitFrom(_, _, _, _, _)
SplitFrom(s, sep, i, cur, acc) ==
    IF i > Len(s) THEN Append(acc, cur)
    ELSE IF s[i] = sep THEN SplitFrom(s, sep, i + 1, <<>>, Append(acc, cur))
    ELSE SplitFrom(s, sep, i + 1, Append(cur, s[i]), acc)

Split(s, sep) == SplitFrom(s, sep, 1, <<>>, <<>>)

\* Iterator::find
RECURSIVE FindFrom(_, _, _)
FindFrom(items, i, pre) ==
    IF i > Len(items) THEN None
    ELSE IF StartsWith(items[i], pre) THEN Some(items[i])
    ELSE FindFrom(items, i + 1, pre)

HexDigits == AsciiDigits \cup {"A", "B", "C", "D", "E", "F"}

\* the byte of a percent escape, for the escapes of the model: "xFF" is a
\* byte that is no UTF-8 text
PercentByte(h1, h2) ==
    CASE <<h1, h2>> = <<"2", "F">> -> "/"
      [] <<h1, h2>> = <<"2", "0">> -> " "
      [] OTHER -> "xFF"

RECURSIVE PercentDecodeFrom(_, _, _)
PercentDecodeFrom(s, i, acc) ==
    IF i > Len(s) THEN acc
    ELSE IF s[i] = "%" /\ At(s, i + 1) \in HexDigits /\ At(s, i + 2) \in HexDigits
         THEN PercentDecodeFrom(s, i + 3, Append(acc, PercentByte(s[i + 1], s[i + 2])))
         ELSE PercentDecodeFrom(s, i + 1, Append(acc, s[i]))

\* urlencoding::decode(p).ok(): None when the decoded bytes are not UTF-8
UrlDecode(s) ==
    LET bytes == PercentDecodeFrom(s, 1, <<>>)
    IN  IF \E i \in DOMAIN bytes : bytes[i] = "xFF" THEN None ELSE Some(bytes)

\* lines 713-719: the first "path=" parameter of the query, decoded
QueryPath(query) ==
    IF query = None THEN None
    ELSE LET found == FindFrom(Split(query[1], "&"), 1, PathEq)
         IN  IF found = None THEN None
             ELSE IF StripPrefix(found[1], PathEq) = None THEN None
             ELSE UrlDecode(StripPrefix(found[1], PathEq)[1])

\* lines 708-720: the file path of a request
FilePath(req) ==
    IF StripPrefix(req.path, AudioFilePrefix) # None
    THEN StripPrefix(req.path, AudioFilePrefix)
    ELSE QueryPath(req.query)

\* a variant that takes an .m4a file for an .mp3 file
ContentType_M4aAsMpeg(file_path) ==
    IF EndsWith(file_path, <<".", "f", "l", "a", "c">>) THEN "audio/flac"
    ELSE IF EndsWith(file_path, <<".", "m", "p", "3">>) THEN "audio/mpeg"
    ELSE IF EndsWith(file_path, <<".", "m", "4", "a">>) THEN "audio/mpeg"
    ELSE IF EndsWith(file_path, <<".", "w", "a", "v">>) THEN "audio/wav"
    ELSE "audio/flac"

\* lines 739-750
ContentType(file_path) ==
    IF EndsWith(file_path, <<".", "f", "l", "a", "c">>) THEN "audio/flac"
    ELSE IF EndsWith(file_path, <<".", "m", "p", "3">>) THEN "audio/mpeg"
    ELSE IF EndsWith(file_path, <<".", "m", "4", "a">>) THEN "audio/mp4"
    ELSE IF EndsWith(file_path, <<".", "w", "a", "v">>) THEN "audio/wav"
    ELSE "audio/flac"

NoResponse == [status |-> 0, headers |-> {}, body |-> <<"none">>]

\* a variant with the status of a bad request
NotFound_Status400 == [status |-> 400, headers |-> {}, body |-> <<"File not found">>]

\* lines 728-731
NotFound == [status |-> 404, headers |-> {}, body |-> <<"File not found">>]

\* lines 772-775
BadRequest == [status |-> 400, headers |-> {}, body |-> <<"Invalid request">>]

\* a variant that reports a failed read as a missing file
ReadFailed_AsNotFound(e) ==
    [status |-> 404, headers |-> {}, body |-> <<"File not found">>]

\* lines 764-767
ReadFailed(e) ==
    [status |-> 500, headers |-> {}, body |-> <<"Failed to read file: ", e>>]

\* lines 753-760
Served(file_path) ==
    [status |-> 200,
     headers |-> {<<"Content-Type", ContentType(file_path)>>,
                  <<"Access-Control-Allow-Origin", "*">>,
                  <<"Access-Control-Allow-Methods", "GET, HEAD, OPTIONS">>,
                  <<"Accept-Ranges", "bytes">>},
     body |-> <<"data", file_path>>]

\* the requests the clients send
Requests ==
    {[path |-> AudioFilePrefix \o A_Mp3, query |-> None],
     [path |-> AudioFile, query |-> Some(PathEq \o <<"%", "2", "F">> \o A_Mp3)],
     [path |-> AudioFile,
      query |-> Some(<<"x", "=", "1", "&">> \o PathEq \o <<"/">> \o B_Flac)],
     [path |-> AudioFile, query |-> None],
     [path |-> AudioFile, query |-> Some(<<"x", "=", "1">>)],
     [path |-> AudioFile, query |-> Some(PathEq \o <<"%", "F", "F">>)],
     [path |-> AudioFilePrefix, query |-> None]}

\* requests for files of the other extensions
ExtensionRequests ==
    {[path |-> AudioFilePrefix \o C_M4a, query |-> None],
     [path |-> AudioFile, query |-> Some(PathEq \o D_Wav)],
     [path |-> AudioFile, query |-> Some(PathEq \o E_Ogg)],
     [path |-> AudioFilePrefix \o <<"f">>, query |-> None],
     [path |-> AudioFilePrefix \o <<"g", ".", "M", "P", "3">>, query |-> None],
     [path |-> AudioFilePrefix \o B_Flac \o <<".">> \o A_Mp3, query |-> None]}

NoRequest == [path |-> <<>>, query |-> None]

NoConn ==
    [pc |-> "none", req |-> NoRequest, file_path |-> None, existed |-> FALSE,
     read |-> "none", resp |-> NoResponse]

\* the threads inside a blocking fs::read
Reading == {c \in ConnIds : conns[c].pc = "reading"}

\* a worker thread is free to poll a task
FreeWorker == Cardinality(Reading) < numWorkers

\* the empty path names no file
MayExist(file_path) == file_path # <<>>

SrvStart ==
    /\ numWorkers \in 1..MaxWorkers
    /\ srvPc = "bind"
    /\ lastAccept = "none"
    /\ conns = [c \in ConnIds |-> NoConn]

SrvIdle ==
    /\ numWorkers = 1
    /\ srvPc = "stopped"
    /\ lastAccept = "none"
    /\ conns = [c \in ConnIds |-> NoConn]

notSrv == <<lrcVars, cacheVars, metaVars>>

\* lines 797-802: the listener is bound
BindOk ==
    /\ srvPc = "bind"
    /\ srvPc' = "accept"
    /\ UNCHANGED <<numWorkers, lastAccept, conns, notSrv>>

\* lines 803-806: the port is taken; the task returns
BindFail ==
    /\ srvPc = "bind"
    /\ srvPc' = "stopped"
    /\ UNCHANGED <<numWorkers, lastAccept, conns, notSrv>>

\* a client connects: the connection waits in the listener's queue
ClientConnect(c) ==
    /\ srvPc = "accept"
    /\ conns[c].pc = "none"
    /\ conns' = [conns EXCEPT ![c].pc = "pending"]
    /\ UNCHANGED <<numWorkers, srvPc, lastAccept, notSrv>>

\* lines 814-830: accept returns a stream and its task is spawned
Accept(c) ==
    /\ srvPc = "accept"
    /\ FreeWorker
    /\ conns[c].pc = "pending"
    /\ conns' = [conns EXCEPT ![c].pc = "open"]
    /\ lastAccept' = "ok"
    /\ UNCHANGED <<numWorkers, srvPc, notSrv>>

\* lines 831-833: accept returns an error; the loop goes on
AcceptErr ==
    /\ srvPc = "accept"
    /\ FreeWorker
    /\ lastAccept' = "err"
    /\ UNCHANGED <<numWorkers, srvPc, conns, notSrv>>

\* the client's request arrives on an open connection, the first or, the
\* connection kept alive, a next one
ClientSend(c, req) ==
    /\ conns[c].pc \in {"open", "done"}
    /\ conns' = [conns EXCEPT ![c] = [NoConn EXCEPT !.pc = "request", !.req = req]]
    /\ UNCHANGED <<numWorkers, srvPc, lastAccept, notSrv>>

\* handle_request, lines 704-735: the path is resolved and checked, and the
\* handler answers 400 or 404 or enters fs::read
HandleRequest(c, exists) ==
    /\ conns[c].pc = "request"
    /\ FreeWorker
    /\ LET file_path == FilePath(conns[c].req)
       IN  conns' = [conns EXCEPT ![c] =
               IF file_path = None
               THEN [@ EXCEPT !.pc = "done", !.resp = BadRequest]
               ELSE IF ~(exists /\ MayExist(file_path[1]))
               THEN [@ EXCEPT !.pc = "done", !.file_path = file_path,
                              !.resp = NotFound]
               ELSE [@ EXCEPT !.pc = "reading", !.file_path = file_path,
                              !.existed = TRUE]]
    /\ UNCHANGED <<numWorkers, srvPc, lastAccept, notSrv>>

\* handle_request, lines 735-769: fs::read returns and the handler answers
ReadReturn(c, outcome) ==
    /\ conns[c].pc = "reading"
    /\ conns' = [conns EXCEPT ![c] =
           [@ EXCEPT !.pc = "done", !.read = outcome,
                     !.resp = IF outcome = "ok" THEN Served(conns[c].file_path[1])
                              ELSE ReadFailed(outcome)]]
    /\ UNCHANGED <<numWorkers, srvPc, lastAccept, notSrv>>

\* the client closes a connection that has no request in the handler
ClientClose(c) ==
    /\ conns[c].pc \in {"open", "done"}
    /\ conns' = [conns EXCEPT ![c] = NoConn]
    /\ UNCHANGED <<numWorkers, srvPc, lastAccept, notSrv>>

ReadErrors == {"No such file or directory", "Permission denied"}

NextSrv ==
    \/ BindOk
    \/ BindFail
    \/ \E c \in ConnIds : ClientConnect(c)
    \/ \E c \in ConnIds : Accept(c)
    \/ AcceptErr
    \/ \E c \in ConnIds : \E req \in Requests : ClientSend(c, req)
    \/ \E c \in ConnIds : \E exists \in BOOLEAN : HandleRequest(c, exists)
    \/ \E c \in ConnIds : \E outcome \in {"ok"} \cup ReadErrors : ReadReturn(c, outcome)
    \/ \E c \in ConnIds : ClientClose(c)

(***************************************************************************)
(* Claims about the streaming responder                                    *)
(***************************************************************************)
Handled == {c \in ConnIds : conns[c].pc = "done"}

\* the request carries a path: as the segment after "/audio-file/", or as a
\* "path" query parameter
YieldsPath(req) ==
    StripPrefix(req.path, AudioFilePrefix) # None \/ QueryPath(req.query) # None

\* C2: a request that yields no path is answered 400; one whose path does not
\* exist exactly 404; one whose path exists and is read 200, with Content-Type
\* audio/mpeg for a path ending in .mp3.
C2_StatusByCase ==
    \A c \in Handled :
        LET r == conns[c]
        IN  /\ ~YieldsPath(r.req) => r.resp.status = 400
            /\ (YieldsPath(r.req) /\ ~r.existed) => r.resp.status = 404
            /\ (r.existed /\ r.read = "ok") =>
                   /\ r.resp.status = 200
                   /\ EndsWith(r.file_path[1], <<".", "m", "p", "3">>) =>
                          <<"Content-Type", "audio/mpeg">> \in r.resp.headers

\* an .mp3 named by an encoded query parameter was served on one connection
\* and a request on the other found no file
C2_Witness ==
    \E c, d \in Handled :
        /\ conns[c].req.query # None
        /\ conns[c].file_path = Some(<<"/">> \o A_Mp3)
        /\ conns[c].resp.status = 200
        /\ YieldsPath(conns[d].req) /\ conns[d].resp.status = 404

\* C3: when the read fails after the existence check passed, the handler
\* still answers, with status 500 and the error text as the body; every
\* handled request has a response with status 200, 400, 404 or 500.
C3_ReadFailureIs500 ==
    \A c \in Handled :
        LET r == conns[c]
        IN  /\ r.resp.status \in {200, 400, 404, 500}
            /\ (r.existed /\ r.read \in ReadErrors) =>
                   /\ r.resp.status = 500
                   /\ r.resp.body = <<"Failed to read file: ", r.read>>

\* the file passed the existence check and was gone at the read
C3_Witness ==
    \E c \in Handled :
        conns[c].existed /\ conns[c].read = "No such file or directory"

\* C6: while a connection's request is stalled in its read, the accept loop
\* still accepts a waiting connection and every other connection's request
\* can run; an error of accept does not end the loop.
C6_IndependentConnections ==
    /\ lastAccept = "err" => srvPc = "accept"
    /\ Reading # {} =>
           /\ (\E d \in ConnIds : conns[d].pc = "pending") =>
                  ENABLED (\E d \in ConnIds : Accept(d))
           /\ \A d \in ConnIds :
                  conns[d].pc = "request" =>
                      ENABLED (\E exists \in BOOLEAN : HandleRequest(d, exists))

\* the text after the last "." of a path, or the empty text
Extension(p) ==
    IF \E i \in DOMAIN p : p[i] = "."
    THEN LET last == CHOOSE i \in DOMAIN p :
                         p[i] = "." /\ \A j \in (i + 1)..Len(p) : p[j] # "."
         IN  Slice(p, last + 1, Len(p))
    ELSE <<>>

\* the Content-Type the extension stands for
TypeOfExtension(ext) ==
    CASE ext = <<"f", "l", "a", "c">> -> "audio/flac"
      [] ext = <<"m", "p", "3">> -> "audio/mpeg"
      [] ext = <<"m", "4", "a">> -> "audio/mp4"
      [] ext = <<"w", "a", "v">> -> "audio/wav"
      [] OTHER -> "audio/flac"

\* the first connection
First == CHOOSE c \in ConnIds : \A d \in ConnIds : c <= d

\* C12: a 200 response has the one Content-Type that stands for the extension
\* of the served file (audio/flac for .flac, audio/mpeg for .mp3, audio/mp4
\* for .m4a, audio/wav for .wav, audio/flac for any other), Accept-Ranges:
\* bytes and Access-Control-Allow-Origin: *.
C12_ContentTypeByExtension ==
    \A c \in Handled :
        conns[c].resp.status = 200 =>
            /\ \A h \in conns[c].resp.headers :
                   h[1] = "Content-Type" =>
                       h[2] = TypeOfExtension(Extension(conns[c].file_path[1]))
            /\ \E h \in conns[c].resp.headers : h[1] = "Content-Type"
            /\ <<"Accept-Ranges", "bytes">> \in conns[c].resp.headers
            /\ <<"Access-Control-Allow-Origin", "*">> \in conns[c].resp.headers

\* an .m4a file was served
C12_Witness ==
    /\ First \in Handled
    /\ conns[First].resp.status = 200
    /\ conns[First].file_path = Some(C_M4a)
    /\ <<"Content-Type", "audio/mp4">> \in conns[First].resp.headers

(***************************************************************************)
(* parse_audio_metadata                                                    *)
(*                                                                         *)
(* The file is what lofty reads from it: its duration and its first tag,   *)
(* None or the tag's items and pictures in their order.  An item has the   *)
(* Debug text of its ItemKey and its value, Some(text) for a text value    *)
(* and None for a binary one.  A picture has its MimeType, if one is       *)
(* declared, and its bytes.                                                *)
(***************************************************************************)
MaxItems == 3       \* items in the first tag
MaxPictures == 2    \* pictures in the first tag

\* str::contains
Contains(s, sub) ==
    \E i \in 1..(Len(s) - Len(sub) + 1) : Slice(s, i, i + Len(sub) - 1) = sub

S_Title == <<"T", "i", "t", "l", "e">>
S_Artist == <<"A", "r", "t", "i", "s", "t">>
S_Album == <<"A", "l", "b", "u", "m">>
S_Lyrics == <<"L", "y", "r", "i", "c", "s">>
S_USLT == <<"U", "S", "L", "T">>
UnknownArtist == <<"U", "n", "k", "n", "o", "w", "n", " ", "A", "r", "t", "i", "s", "t">>
UnknownAlbum == <<"U", "n", "k", "n", "o", "w", "n", " ", "A", "l", "b", "u", "m">>

\* format!("{:?}", item.key()) for the keys of the model
K_TrackTitle == <<"T", "r", "a", "c", "k", "T", "i", "t", "l", "e">>
K_TrackArtist == <<"T", "r", "a", "c", "k", "A", "r", "t", "i", "s", "t">>
K_AlbumTitle == <<"A", "l", "b", "u", "m", "T", "i", "t", "l", "e">>
K_AlbumArtist == <<"A", "l", "b", "u", "m", "A", "r", "t", "i", "s", "t">>
K_Lyrics == <<"L", "y", "r", "i", "c", "s">>
K_Genre == <<"G", "e", "n", "r", "e">>
K_UnknownTitle ==
    <<"U", "n", "k", "n", "o", "w", "n", "(", QUOTE, "t", "i", "t", "l", "e", QUOTE, ")">>
K_UnknownUSLT ==
    <<"U", "n", "k", "n", "o", "w", "n", "(", QUOTE, "U", "S", "L", "T", QUOTE, ")">>

\* the locals of lines 537-542
NoLocals ==
    [title |-> <<>>, artist |-> <<>>, album |-> <<>>, lyrics |-> <<>>,
     cover_data |-> None, cover_mime |-> None]

\* lines 549-564: one item of the tag
TagItem(loc, item) ==
    IF item.value = None THEN loc
    ELSE IF Contains(item.key, S_Title) /\ loc.title = <<>>
         THEN [loc EXCEPT !.title = item.value[1]]
    ELSE IF Contains(item.key, S_Artist) /\ loc.artist = <<>>
         THEN [loc EXCEPT !.artist = item.value[1]]
    ELSE IF Contains(item.key, S_Album) /\ loc.album = <<>>
         THEN [loc EXCEPT !.album = item.value[1]]
    ELSE IF (Contains(item.key, S_Lyrics) \/ Contains(item.key, S_USLT))
            /\ loc.lyrics = <<>>
         THEN [loc EXCEPT !.lyrics = item.value[1]]
    ELSE loc

\* lines 547-565: the loop over tag.items()
RECURSIVE TagLoop(_, _, _)
TagLoop(items, i, loc) ==
    IF i > Len(items) THEN loc ELSE TagLoop(items, i + 1, TagItem(loc, items[i]))

\* the alphabet of base64::engine::general_purpose::STANDARD
B64Alphabet ==
    <<"A", "B", "C", "D", "E", "F", "G", "H", "I", "J", "K", "L", "M",
      "N", "O", "P", "Q", "R", "S", "T", "U", "V", "W", "X", "Y", "Z",
      "a", "b", "c", "d", "e", "f", "g", "h", "i", "j", "k", "l", "m",
      "n", "o", "p", "q", "r", "s", "t", "u", "v", "w", "x", "y", "z",
      "0", "1", "2", "3", "4", "5", "6", "7", "8", "9", "+", "/">>

B64Char(n) == B64Alphabet[n + 1]

\* STANDARD.encode: three bytes give four characters, the last group is
\* padded with "="
RECURSIVE Base64Encode(_)
Base64Encode(bytes) ==
    IF bytes = <<>> THEN <<>>
    ELSE IF Len(bytes) = 1
    THEN <<B64Char(bytes[1] \div 4), B64Char((bytes[1] % 4) * 16), "=", "=">>
    ELSE IF Len(bytes) = 2
    THEN <<B64Char(bytes[1] \div 4),
           B64Char((bytes[1] % 4) * 16 + bytes[2] \div 16),
           B64Char((bytes[2] % 16) * 4), "=">>
    ELSE <<B64Char(bytes[1] \div 4),
           B64Char((bytes[1] % 4) * 16 + bytes[2] \div 16),
           B64Char((bytes[2] % 16) * 4 + bytes[3] \div 64),
           B64Char(bytes[3] % 64)>>
         \o Base64Encode(Slice(bytes, 4, Len(bytes)))

\* MimeType::to_string
MimeString(mime) ==
    CASE mime = "Png" -> <<"i", "m", "a", "g", "e", "/", "p", "n", "g">>
      [] mime = "Jpeg" -> <<"i", "m", "a", "g", "e", "/", "j", "p", "e", "g">>

\* lines 568-574: the first picture of tag.pictures(), if there is one
CoverOf(loc, pictures) ==
    IF pictures = <<>> THEN loc
    ELSE [loc EXCEPT
             !.cover_mime = IF pictures[1].mime = None THEN loc.cover_mime
                            ELSE Some(MimeString(pictures[1].mime[1])),
             !.cover_data = Some(Base64Encode(pictures[1].data))]

\* lines 545-575: the locals after the tag block
AfterTag(tag) ==
    IF tag = None THEN NoLocals
    ELSE CoverOf(TagLoop(tag[1].items, 1, NoLocals), tag[1].pictures)

\* Path::file_name of the path of a file: the text after the last "/"
RECURSIVE FileNameOf(_)
FileNameOf(path) ==
    IF \E i \in DOMAIN path : path[i] = "/"
    THEN FileNameOf(Tail(path))
    ELSE path

\* the position of the last "." of a name, or 0
RECURSIVE LastDot(_, _)
LastDot(name, i) ==
    IF i = 0 THEN 0 ELSE IF name[i] = "." THEN i ELSE LastDot(name, i - 1)

\* a variant that takes the whole file name
FileStem_FileName(path) ==
    IF FileNameOf(path) = <<>> THEN None ELSE Some(FileNameOf(path))

\* Path::file_stem: the file name up to its last ".", the whole name when it
\* has no "." or only a leading one
FileStem(path) ==
    LET name == FileNameOf(path)
        dot == LastDot(name, Len(name))
    IN  IF name = <<>> THEN None
        ELSE IF dot <= 1 THEN Some(name)
        ELSE Some(Slice(name, 1, dot - 1))

\* lines 577-592: the fallbacks of title, artist and album
WithFallbacks(loc, file_path) ==
    [loc EXCEPT
        !.title = IF loc.title = <<>> /\ FileStem(file_path) # None
                  THEN FileStem(file_path)[1] ELSE loc.title,
        !.artist = IF loc.artist = <<>> THEN UnknownArtist ELSE loc.artist,
        !.album = IF loc.album = <<>> THEN UnknownAlbum ELSE loc.album]

\* lines 595-599
LyricsOf(lyrics) ==
    IF lyrics # <<>> THEN parse_lrc_lyrics(lyrics)
    ELSE [plain_text |-> lyrics, synced |-> None]

\* lines 603-616
Success(loc, file_path, duration) ==
    [success |-> TRUE,
     metadata |-> Some([title |-> WithFallbacks(loc, file_path).title,
                        artist |-> WithFallbacks(loc, file_path).artist,
                        album |-> WithFallbacks(loc, file_path).album,
                        duration |-> duration,
                        lyrics |-> LyricsOf(loc.lyrics).plain_text,
                        synced_lyrics |-> LyricsOf(loc.lyrics).synced,
                        cover_data |-> loc.cover_data,
                        cover_mime |-> loc.cover_mime]),
     error |-> None]

\* lines 513-517 and 525-529
Failure(e) == [success |-> FALSE, metadata |-> None, error |-> Some(e)]

NoResult == [success |-> FALSE, metadata |-> None, error |-> None]

(***************************************************************************)
(* The files parse_audio_metadata is called on                             *)
(***************************************************************************)
TextItem(key, text) == [key |-> key, value |-> Some(text)]
BinaryItem(key) == [key |-> key, value |-> None]

ItemPool ==
    {TextItem(K_TrackTitle, <<"T", "1">>), TextItem(K_TrackTitle, <<"T", "2">>),
     TextItem(K_TrackTitle, <<>>), BinaryItem(K_TrackTitle),
     TextItem(K_TrackArtist, <<"A", "1">>), TextItem(K_AlbumTitle, <<"B", "1">>),
     TextItem(K_AlbumArtist, <<"C", "1">>), TextItem(K_Lyrics, M_01_02 \o Hi),
     TextItem(K_Lyrics, Hello), TextItem(K_UnknownUSLT, Hi),
     TextItem(K_UnknownTitle, <<"U", "1">>), TextItem(K_Genre, <<"G", "1">>)}

PicturePool ==
    {[mime |-> Some("Png"), data |-> <<77, 97, 110>>],
     [mime |-> Some("Jpeg"), data |-> <<77, 97>>],
     [mime |-> Some("Jpeg"), data |-> <<>>],
     [mime |-> None, data |-> <<77>>]}

P_Song == <<"/", "m", "/", "s", "o", "n", "g", ".", "m", "p", "3">>
P_TwoDots == <<"a", ".", "b", ".", "f", "l", "a", "c">>
P_NoExtension == <<"/", "d", ".", "x", "/", "n", "o", "e", "x", "t">>
P_Hidden == <<"/", "m", "/", ".", "w", "a", "v">>
Paths == {P_Song, P_TwoDots, P_NoExtension, P_Hidden}

AudioFiles ==
    {[file_path |-> P_Song, duration |-> 62500,
      tag |-> Some([items |-> is, pictures |-> <<>>])] :
        is \in SeqsUpTo(ItemPool, MaxItems)}
    \cup
    {[file_path |-> path, duration |-> d,
      tag |-> Some([items |-> is, pictures |-> ps])] :
        path \in Paths, d \in {0, 62500},
        is \in {<<>>, <<TextItem(K_TrackTitle, <<"T", "1">>)>>},
        ps \in SeqsUpTo(PicturePool, MaxPictures)}
    \cup
    {[file_path |-> path, duration |-> 0, tag |-> None] : path \in Paths}

(***************************************************************************)
(* The command as a state machine: one call of parse_audio_metadata        *)
(***************************************************************************)
MetaStart ==
    /\ audio \in AudioFiles
    /\ metaPc = "call"
    /\ metaLocals = NoLocals
    /\ metaResult = NoResult

MetaIdle ==
    /\ audio = [file_path |-> <<>>, duration |-> 0, tag |-> None]
    /\ metaPc = "idle"
    /\ metaLocals = NoLocals
    /\ metaResult = NoResult

notMeta == <<lrcVars, cacheVars, srvVars>>

\* lines 512-518: the file is not there
MetaNoFile ==
    /\ metaPc = "call"
    /\ metaPc' = "done"
    /\ metaResult' = Failure(<<"File does not exist">>)
    /\ UNCHANGED <<audio, metaLocals, notMeta>>

\* lines 521-531: lofty cannot read the file
MetaReadFail(e) ==
    /\ metaPc = "call"
    /\ metaPc' = "done"
    /\ metaResult' = Failure(<<"Failed to read audio file: ", e>>)
    /\ UNCHANGED <<audio, metaLocals, notMeta>>

\* lines 512-534: the file is there and lofty reads it
MetaRead ==
    /\ metaPc = "call"
    /\ metaPc' = "tags"
    /\ UNCHANGED <<audio, metaLocals, metaResult, notMeta>>

\* lines 537-575: the items and the pictures of the first tag
ExtractTags ==
    /\ metaPc = "tags"
    /\ metaPc' = "fallbacks"
    /\ metaLocals' = AfterTag(audio.tag)
    /\ UNCHANGED <<audio, metaResult, notMeta>>

\* lines 577-616: the fallbacks, the lyrics, the result
MetaFinish ==
    /\ metaPc = "fallbacks"
    /\ metaPc' = "done"
    /\ metaResult' = Success(metaLocals, audio.file_path, audio.duration)
    /\ UNCHANGED <<audio, metaLocals, notMeta>>

\* errors of lofty::read_from_path
LoftyErrors == {"UnknownFormat", "Io"}

NextMeta ==
    \/ MetaNoFile
    \/ \E e \in LoftyErrors : MetaReadFail(e)
    \/ MetaRead
    \/ ExtractTags
    \/ MetaFinish

(***************************************************************************)
(* Claims about parse_audio_metadata                                       *)
(***************************************************************************)
Succeeded == metaPc = "done" /\ metaResult.success

\* the file has no tag data: no tag, or a tag without items and pictures
NoTagData ==
    audio.tag = None \/ (audio.tag[1].items = <<>> /\ audio.tag[1].pictures = <<>>)

\* the base name of a path without its extension: the text after the last
\* "/", up to the last "." that is not its first character
BaseNameWithoutExtension(path) ==
    LET slashes == {i \in DOMAIN path : path[i] = "/"}
        from == IF slashes = {} THEN 1
                ELSE (CHOOSE i \in slashes : \A j \in slashes : j <= i) + 1
        dots == {i \in (from + 1)..Len(path) : path[i] = "."}
        to == IF dots = {} THEN Len(path)
              ELSE (CHOOSE i \in dots : \A j \in dots : j <= i) - 1
    IN  Slice(path, from, to)

\* C11: a file without tag data gives success with the base name without
\* extension as the title, "Unknown Artist", "Unknown Album", empty lyrics, no
\* synced timeline and no cover; a fallback is applied when, and only when,
\* the value extracted for its field is empty.
C11_FallbacksWhenEmpty ==
    Succeeded =>
        LET m == metaResult.metadata[1]
        IN  /\ NoTagData =>
                   /\ m.title = BaseNameWithoutExtension(audio.file_path)
                   /\ m.artist = UnknownArtist
                   /\ m.album = UnknownAlbum
                   /\ m.lyrics = <<>>
                   /\ m.synced_lyrics = None
                   /\ m.cover_data = None /\ m.cover_mime = None
            /\ m.title = IF metaLocals.title = <<>>
                         THEN BaseNameWithoutExtension(audio.file_path)
                         ELSE metaLocals.title
            /\ m.artist = IF metaLocals.artist = <<>> THEN UnknownArtist
                          ELSE metaLocals.artist
            /\ m.album = IF metaLocals.album = <<>> THEN UnknownAlbum
                         ELSE metaLocals.album

\* the call returned for a file without a tag whose name has two dots
C11_Witness ==
    /\ Succeeded
    /\ audio.tag = None
    /\ audio.file_path = P_TwoDots
    /\ metaResult.metadata[1].title = <<"a", ".", "b">>
    /\ metaResult.metadata[1].artist = UnknownArtist

\* the role the identifier of an item denotes
RoleOf(key) ==
    CASE key = K_TrackTitle -> "title"
      [] key = K_TrackArtist -> "artist"
      [] key = K_AlbumTitle -> "album"
      [] key = K_Lyrics -> "lyrics"
      [] OTHER -> "none"

\* the text of the first item of the role, or the empty text
FirstOfRole(items, role) ==
    IF \E i \in DOMAIN items : RoleOf(items[i].key) = role
    THEN LET first == CHOOSE i \in DOMAIN items :
                          /\ RoleOf(items[i].key) = role
                          /\ \A j \in 1..(i - 1) : RoleOf(items[j].key) # role
         IN  items[first].value[1]
    ELSE <<>>

\* C14: when the items of the first tag are non-empty texts under the
\* identifiers of the title, the artist, the album and the lyrics, each role
\* gets the text of the first item of that role, in whatever order the items
\* come, and no role gets the text of an item of another role.
C14_FirstItemPerRole ==
    (/\ metaPc = "fallbacks" \/ Succeeded
     /\ audio.tag # None
     /\ \A i \in DOMAIN audio.tag[1].items :
            /\ RoleOf(audio.tag[1].items[i].key) # "none"
            /\ audio.tag[1].items[i].value \notin {None, Some(<<>>)}) =>
        /\ metaLocals.title = FirstOfRole(audio.tag[1].items, "title")
        /\ metaLocals.artist = FirstOfRole(audio.tag[1].items, "artist")
        /\ metaLocals.album = FirstOfRole(audio.tag[1].items, "album")
        /\ metaLocals.lyrics = FirstOfRole(audio.tag[1].items, "lyrics")

\* C15: a successful result has cover_data exactly when it has cover_mime,
\* and both are those of the first picture of the tag.
C15_CoverAllOrNothing ==
    Succeeded =>
        LET m == metaResult.metadata[1]
        IN  /\ m.cover_data # None <=> m.cover_mime # None
            /\ (audio.tag # None /\ audio.tag[1].pictures # <<>>) =>
                   LET first == audio.tag[1].pictures[1]
                   IN  /\ m.cover_data = Some(Base64Encode(first.data))
                       /\ first.mime # None =>
                              m.cover_mime = Some(MimeString(first.mime[1]))

(***************************************************************************)
(* Specifications                                                          *)
(***************************************************************************)
\* one call of parse_lrc_lyrics
InitLrc == LrcStart /\ CacheIdle /\ SrvIdle /\ MetaIdle
NextLrc == ParseLrc
SpecLrc == InitLrc /\ [][NextLrc]_vars

\* the cache commands, a saving caller beside a loading caller
InitCache == CacheIdle /\ LrcIdle /\ SrvIdle /\ MetaIdle
SpecCache == InitCache /\ [][NextCache]_vars

\* the responder: the accept loop and the connections' tasks
InitSrv == SrvStart /\ CacheIdle /\ LrcIdle /\ MetaIdle
SpecSrv == InitSrv /\ [][NextSrv]_vars

\* the responder with one client that asks for files of every extension
NextServe ==
    \/ BindOk
    \/ BindFail
    \/ ClientConnect(First)
    \/ Accept(First)
    \/ AcceptErr
    \/ \E req \in Requests \cup ExtensionRequests : ClientSend(First, req)
    \/ \E exists \in BOOLEAN : HandleRequest(First, exists)
    \/ \E outcome \in {"ok"} \cup ReadErrors : ReadReturn(First, outcome)
    \/ ClientClose(First)
SpecServe == InitSrv /\ [][NextServe]_vars

\* one call of parse_audio_metadata
InitMeta == MetaStart /\ CacheIdle /\ LrcIdle /\ SrvIdle
SpecMeta == InitMeta /\ [][NextMeta]_vars

=============================================================================
